---- MODULE Spec2Model ----
(***************************************************************************)
(* State-machine model of the population client (src/src/api.py) and of    *)
(* the trend analysis (src/src/analysis.py).                               *)
(*                                                                         *)
(* Time is counted in ticks.  The client only ever reads the clock to form *)
(* time_diff = now - last_request_time and compares it with time_window,   *)
(* so the model keeps that difference (elapsed), saturated at time_window, *)
(* together with the remaining time of every pending asyncio.sleep.        *)
(* Tasks run on one cooperative event loop: an action is the code a task   *)
(* executes between two suspension points.                                 *)
(***************************************************************************)
EXTENDS Integers, Sequences, FiniteSets, TLC

\* ---------------------------------------------------------------- bounds
MaxRateLimit == 2
MaxTimeWindow == 2
MaxYears == 2
MaxCalls == 5
MaxLen == 3

\* dashboard.py: the default start year of the year selector
FirstYear == 2000

VARIABLES
    rate_limit,        \* self.rate_limit
    time_window,       \* self.time_window (ticks)
    semaphore,         \* value of self.semaphore
    request_count,     \* self.request_count
    elapsed,           \* now - self.last_request_time, saturated at time_window
    start_year,        \* arguments of calculate_growth_rate
    end_year,
    server,            \* the responses the statistics API may give
    tasks,             \* years for which a get_country_population task exists
    pc,                \* per task: "acquire", "sleep", "get", "done"
    remaining,         \* per task: ticks left of its asyncio.sleep
    result,            \* per finished task: what get_country_population did
    completed,         \* as_completed: finished tasks not yet handed out
    population_data,   \* the list calculate_growth_rate collects
    range_pc,          \* "idle", "running", "returned", "raised"
    admits,            \* history: age (ticks, saturated) of every admission
    uptime,            \* history: ticks since construction, saturated
    reset_at,          \* history: number of admissions before the last reset
    last_reply,        \* history: the response that ended the latest request
    sent,              \* history: per task, the GETs it has issued
    data,              \* the list given to the analysis and list functions
    analysis,          \* outcome of analyze_population_trends
    min_growth,        \* arguments of filter_by_growth_rate
    max_growth,
    filtered,          \* its outcome
    csv,               \* the file export_to_csv writes, as lines of fields
    annotated          \* the list after the growth-rate loop

clientVars == <<rate_limit, time_window, semaphore, request_count, elapsed,
                start_year, end_year, server, tasks, pc, remaining, result,
                completed, population_data, range_pc, admits, uptime,
                reset_at, last_reply, sent>>
analysisVars == <<data, analysis, min_growth, max_growth, filtered, csv,
                  annotated>>
vars == <<clientVars, analysisVars>>

Min(a, b) == IF a < b THEN a ELSE b
Max(a, b) == IF a > b THEN a ELSE b

\* ------------------------------------------------------- Python values
\* A JSON/Python value as far as the code distinguishes it.
PyInt(n) == [t |-> "int", v |-> n]
PyNone == [t |-> "none", v |-> 0]
PyStr == [t |-> "str", v |-> 0]

\* growth_rate: Optional[float]; a set rate is kept as the exact fraction
\* num / den.
Unset == [set |-> FALSE, num |-> 0, den |-> 1]
Rate(n, d) == [set |-> TRUE, num |-> n, den |-> d]
RateEq(a, b) == a.set = b.set /\ (a.set => a.num * b.den = b.num * a.den)

PopulationData(country, year, population) ==
    [country |-> country, year |-> year, population |-> population,
     growth_rate |-> Unset]

Country == "USA"

\* ----------------------------------------------------------- responses
\* What session.get / response.json can produce, by the features the code
\* looks at: the connection, the status, whether the body is JSON, the
\* length of the JSON array, its element 1, and the first observation.
Response(connected, status, json, len, obs, has_value, value) ==
    [connected |-> connected, status |-> status, json |-> json, len |-> len,
     obs |-> obs, has_value |-> has_value, value |-> value]

ConnectionError == Response(FALSE, 0, FALSE, 0, "null", FALSE, PyNone)
Status500 == Response(TRUE, 500, TRUE, 2, "list", TRUE, PyInt(100))
NotJson == Response(TRUE, 200, FALSE, 0, "null", FALSE, PyNone)
EmptyArray == Response(TRUE, 200, TRUE, 0, "null", FALSE, PyNone)
ShortArray == Response(TRUE, 200, TRUE, 1, "null", FALSE, PyNone)
NullObservations == Response(TRUE, 200, TRUE, 2, "null", FALSE, PyNone)
EmptyObservations == Response(TRUE, 200, TRUE, 2, "empty", FALSE, PyNone)
NoValueField == Response(TRUE, 200, TRUE, 2, "list", FALSE, PyNone)
Observation(value) == Response(TRUE, 200, TRUE, 2, "list", TRUE, value)

FailureResponses ==
    {ConnectionError, Status500, NotJson, EmptyArray, ShortArray,
     NullObservations, EmptyObservations, NoValueField}
Values == {PyInt(100), PyInt(110), PyInt(0), PyInt(-5), PyNone, PyStr}
Responses == FailureResponses \cup {Observation(v) : v \in Values}

\* ------------------------------------------------ get_country_population
\* The body of the try block (api.py 71-81) on response r: it returns a
\* record, raises, or falls through to the statement after the try.
TryBody(country, year, r) ==
    IF ~r.connected THEN [kind |-> "raise", data |-> PopulationData(country, year, PyInt(0))]
    ELSE IF r.status = 200 THEN
        IF ~r.json THEN [kind |-> "raise", data |-> PopulationData(country, year, PyInt(0))]
        ELSE IF r.len > 0 /\ r.len > 1 /\ r.obs = "list" THEN
            IF r.has_value
            THEN [kind |-> "return", data |-> PopulationData(country, year, r.value)]
            ELSE [kind |-> "raise", data |-> PopulationData(country, year, PyInt(0))]
        ELSE [kind |-> "fall", data |-> PopulationData(country, year, PyInt(0))]
    ELSE [kind |-> "fall", data |-> PopulationData(country, year, PyInt(0))]

\* Variant: no except clause around the request, the exception escapes.
get_country_population_NoExcept(country, year, r) ==
    LET b == TryBody(country, year, r) IN
    [raised |-> b.kind = "raise", data |-> b.data]

\* What the call hands to its awaiter (api.py 70-85): the record of the try
\* block, else (exception logged, or nothing returned) the zero record.
get_country_population(country, year, r) ==
    LET b == TryBody(country, year, r) IN
    IF b.kind = "return"
    THEN [raised |-> FALSE, data |-> b.data]
    ELSE [raised |-> FALSE, data |-> PopulationData(country, year, PyInt(0))]

\* ---------------------------------------------------------- _rate_limit
\* Variant: the semaphore admits everyone.
SemaphoreFree_Ungated == TRUE

\* asyncio.Semaphore.acquire returns without waiting (api.py 61)
SemaphoreFree == semaphore > 0

\* api.py 40
WindowExpired == elapsed >= time_window

\* Variant: quota test off by one.
QuotaExhausted_OffByOne == request_count > rate_limit

\* api.py 43
QuotaExhausted == request_count >= rate_limit

\* A task that can run now without any outside event.
Runnable(y) ==
    \/ pc[y] = "acquire" /\ SemaphoreFree
    \/ pc[y] = "sleep" /\ remaining[y] = 0

\* Variant: asyncio.sleep(time_diff - time_window), which returns at once.
SleepTime_Flipped == Max(elapsed - time_window, 0)

\* time_window - time_diff, the argument of asyncio.sleep (api.py 44)
SleepTime == time_window - elapsed

\* Variant: the admission is not counted.
Counted_Skipped(count) == count

\* self.request_count += 1 (api.py 48)
Counted(count) == count + 1

\* Variant: the request is sent a second time.
IssueGet_Twice(s, y) == [s EXCEPT ![y] = @ + 2]

\* session.get(url, params=params), api.py 72: task y sends one GET
IssueGet(s, y) == [s EXCEPT ![y] = @ + 1]

\* Variant: the semaphore is not given back.
Released_Leaked(value) == value

\* leaving `async with self.semaphore` (api.py 61): Semaphore.release
Released(value) == value + 1

\* Variant: zero populations pass the test of the range generator.
IsValidData_OrZero(record) == record.population.v >= 0

\* data.population > 0, api.py 111
IsValidData(record) == record.population.v > 0

\* range(start_year, end_year + 1), api.py 106
YearRange(first, last) == first .. last

\* ---------------------------------------------------------------- client
\* calculate_growth_rate is called: the range generator creates one task
\* per year and as_completed schedules them all (api.py 104-109, 131-132).
Call ==
    /\ range_pc = "idle"
    /\ range_pc' = "running"
    /\ tasks' = YearRange(start_year, end_year)
    /\ pc' = [y \in tasks' |-> "acquire"]
    /\ remaining' = [y \in tasks' |-> 0]
    /\ sent' = [y \in tasks' |-> 0]
    /\ UNCHANGED <<rate_limit, time_window, semaphore, request_count, elapsed,
                   start_year, end_year, server, result, completed,
                   population_data, admits, uptime, reset_at, last_reply>>
    /\ UNCHANGED analysisVars

\* A task enters `async with self.semaphore` and runs _rate_limit up to its
\* end or to the sleep (api.py 61-62, 37-48).
Enter(y) ==
    /\ y \in tasks
    /\ pc[y] = "acquire"
    /\ SemaphoreFree
    /\ semaphore' = semaphore - 1
    /\ IF WindowExpired THEN
            /\ request_count' = Counted(0)
            /\ elapsed' = 0
            /\ pc' = [pc EXCEPT ![y] = "get"]
            /\ sent' = IssueGet(sent, y)
            /\ admits' = Append(admits, 0)
            /\ reset_at' = Len(admits)
            /\ UNCHANGED remaining
       ELSE IF QuotaExhausted THEN
            /\ remaining' = [remaining EXCEPT ![y] = SleepTime]
            /\ pc' = [pc EXCEPT ![y] = "sleep"]
            /\ UNCHANGED <<request_count, elapsed, admits, reset_at, sent>>
       ELSE
            /\ request_count' = Counted(request_count)
            /\ pc' = [pc EXCEPT ![y] = "get"]
            /\ sent' = IssueGet(sent, y)
            /\ admits' = Append(admits, 0)
            /\ UNCHANGED <<elapsed, remaining, reset_at>>
    /\ UNCHANGED <<rate_limit, time_window, start_year, end_year, server,
                   tasks, result, completed, population_data, range_pc, uptime,
                   last_reply>>
    /\ UNCHANGED analysisVars

\* asyncio.sleep returns: reset the window, count the request (api.py 45-48).
Wake(y) ==
    /\ y \in tasks
    /\ pc[y] = "sleep"
    /\ remaining[y] = 0
    /\ request_count' = Counted(0)
    /\ elapsed' = 0
    /\ pc' = [pc EXCEPT ![y] = "get"]
    /\ sent' = IssueGet(sent, y)
    /\ admits' = Append(admits, 0)
    /\ reset_at' = Len(admits)
    /\ UNCHANGED <<rate_limit, time_window, semaphore, start_year, end_year,
                   server, tasks, remaining, result, completed,
                   population_data, range_pc, uptime, last_reply>>
    /\ UNCHANGED analysisVars

\* The request of task y ends with response r: the task builds its record,
\* leaves the semaphore and is queued by as_completed (api.py 64-85).
Respond(y, r) ==
    /\ y \in tasks
    /\ pc[y] = "get"
    /\ r \in server
    /\ result' = result @@ (y :> get_country_population(Country, y, r))
    /\ semaphore' = Released(semaphore)
    /\ pc' = [pc EXCEPT ![y] = "done"]
    /\ completed' = Append(completed, y)
    /\ last_reply' = [year |-> y, response |-> r]
    /\ UNCHANGED <<rate_limit, time_window, request_count, elapsed, start_year,
                   end_year, server, tasks, remaining, population_data,
                   range_pc, admits, uptime, reset_at, sent>>
    /\ UNCHANGED analysisVars

\* One round of `for task in as_completed(tasks)`: await the next finished
\* task, test its population, yield it to calculate_growth_rate, which
\* appends it (api.py 109-112, 132-133).  Comparing None or a string with 0
\* raises TypeError, which ends the generator and the caller.
RangeNext ==
    /\ range_pc = "running"
    /\ completed # <<>>
    /\ LET out == result[Head(completed)] IN
        /\ completed' = Tail(completed)
        /\ IF out.raised \/ out.data.population.t # "int" THEN
                /\ range_pc' = "raised"
                /\ UNCHANGED population_data
           ELSE IF IsValidData(out.data) THEN
                /\ population_data' = Append(population_data, out.data)
                /\ UNCHANGED range_pc
           ELSE UNCHANGED <<population_data, range_pc>>
    /\ UNCHANGED <<rate_limit, time_window, semaphore, request_count, elapsed,
                   start_year, end_year, server, tasks, pc, remaining, result,
                   admits, uptime, reset_at, last_reply, sent>>
    /\ UNCHANGED analysisVars

\* Variant: the change is taken relative to the current population.
GrowthRate_OverCurrent(curr_pop, prev_pop) ==
    Rate((curr_pop - prev_pop) * 100, curr_pop)

\* ((curr_pop - prev_pop) / prev_pop) * 100, api.py 140
GrowthRate(curr_pop, prev_pop) == Rate((curr_pop - prev_pop) * 100, prev_pop)

\* The growth-rate loop over a list, api.py 136-141.
GrowthPass(list) ==
    [i \in 1 .. Len(list) |->
        IF i >= 2 /\ list[i - 1].population.v > 0
        THEN [list[i] EXCEPT !.growth_rate =
                 GrowthRate(list[i].population.v, list[i - 1].population.v)]
        ELSE list[i]]

\* Every task has been handed out: the generator ends, calculate_growth_rate
\* annotates the list and returns it (api.py 136-143).
Return ==
    /\ range_pc = "running"
    /\ completed = <<>>
    /\ \A y \in tasks : pc[y] = "done"
    /\ population_data' = GrowthPass(population_data)
    /\ range_pc' = "returned"
    /\ UNCHANGED <<rate_limit, time_window, semaphore, request_count, elapsed,
                   start_year, end_year, server, tasks, pc, remaining, result,
                   completed, admits, uptime, reset_at, last_reply, sent>>
    /\ UNCHANGED analysisVars

\* The event loop has something to run without waiting: a task, the range
\* generator, or the end of calculate_growth_rate.
LoopBusy ==
    \/ \E y \in tasks : Runnable(y)
    \/ range_pc = "running" /\ completed # <<>>
    \/ range_pc = "running" /\ \A y \in tasks : pc[y] = "done"

\* One tick of the clock (datetime.now, api.py 37 and 46; asyncio.sleep, 44).
\* The loop runs every ready callback before it waits, and the code between
\* two suspension points takes no time at the scale of a tick, so the clock
\* moves only while the loop is idle.
Tick ==
    /\ ~LoopBusy
    /\ elapsed' = Min(elapsed + 1, time_window)
    /\ uptime' = Min(uptime + 1, time_window)
    /\ remaining' = [y \in tasks |-> Max(remaining[y] - 1, 0)]
    /\ admits' = [i \in 1 .. Len(admits) |-> Min(admits[i] + 1, time_window)]
    /\ UNCHANGED <<rate_limit, time_window, semaphore, request_count,
                   start_year, end_year, server, tasks, pc, result, completed,
                   population_data, range_pc, reset_at, last_reply, sent>>
    /\ UNCHANGED analysisVars

\* -------------------------------------------------------------- analysis
\* Variant: the filter keeps zero populations.
process_population_data_KeepZero(d) ==
    SelectSeq(d, LAMBDA e : e.population.v >= 0)

\* analysis.py 30-32: the entries with population > 0, in input order
process_population_data(d) ==
    SelectSeq(d, LAMBDA e : e.population.v > 0)

\* Every population is an int, so that `entry.population > 0` is defined.
Comparable(d) == \A i \in 1 .. Len(d) : d[i].population.t = "int"

SeqMax(f, n) == CHOOSE m \in {f[i] : i \in 1 .. n} : \A i \in 1 .. n : f[i] <= m

\* Variant: the first entry is taken for the minimum.
SeqMin_First(f, n) == f[1]

SeqMin(f, n) == CHOOSE m \in {f[i] : i \in 1 .. n} : \A i \in 1 .. n : m <= f[i]

\* Sum of the set growth rates of d[1..n], as a fraction.
RECURSIVE RateSum(_, _)
RateSum(d, n) ==
    IF n = 0 THEN [num |-> 0, den |-> 1]
    ELSE LET s == RateSum(d, n - 1)
             g == d[n].growth_rate
         IN IF g.set
            THEN [num |-> s.num * g.den + g.num * s.den, den |-> s.den * g.den]
            ELSE s

\* df['growth_rate'].mean(), analysis.py 62: the mean of the rates that are
\* set, NaN when none is.
RateMean(d) ==
    LET n == Cardinality({i \in 1 .. Len(d) : d[i].growth_rate.set})
        s == RateSum(d, Len(d))
    IN IF n = 0 THEN [nan |-> TRUE, num |-> 0, den |-> 1]
       ELSE [nan |-> FALSE, num |-> s.num, den |-> s.den * n]

NoAnalysis(error) ==
    [error |-> error, country |-> "", start_year |-> 0, end_year |-> 0,
     average_growth_rate |-> [nan |-> TRUE, num |-> 0, den |-> 1],
     max_population |-> 0, min_population |-> 0, total_change |-> 0,
     percentage_change |-> [num |-> 0, den |-> 1]]

\* analysis.py 46-77
analyze_population_trends(d) ==
    IF ~Comparable(d) THEN NoAnalysis("TypeError")
    ELSE LET valid_data == process_population_data(d)
             n == Len(valid_data)
         IN IF n = 0 THEN NoAnalysis("ValueError")
            ELSE LET pop == [i \in 1 .. n |-> valid_data[i].population.v]
                     year == [i \in 1 .. n |-> valid_data[i].year]
                     max_pop == SeqMax(pop, n)
                     min_pop == SeqMin(pop, n)
                     total_change == max_pop - min_pop
                 IN [error |-> "none",
                     country |-> valid_data[1].country,
                     start_year |-> SeqMin(year, n),
                     end_year |-> SeqMax(year, n),
                     average_growth_rate |-> RateMean(valid_data),
                     max_population |-> max_pop,
                     min_population |-> min_pop,
                     total_change |-> total_change,
                     percentage_change |->
                         IF min_pop > 0
                         THEN [num |-> total_change * 100, den |-> min_pop]
                         ELSE [num |-> 0, den |-> 1]]

\* A caller runs analyze_population_trends on its list.
Analyze ==
    /\ analysis.error = "not_run"
    /\ analysis' = analyze_population_trends(data)
    /\ UNCHANGED <<data, min_growth, max_growth, filtered, csv, annotated>>
    /\ UNCHANGED clientVars

NoReply == [year |-> 0, response |-> ConnectionError]

\* a <= b for two numbers held as fractions with positive denominators
RateLe(a, b) == a.num * b.den <= b.num * a.den

\* The comparisons of the lambda that Python cannot make: None >= float or
\* None <= float raises TypeError (analysis.py 96-97).  The second comparison
\* is reached whenever the first conjunct is true.
growth_filter_raises(x, lo, hi) ==
    \/ lo.set /\ ~x.growth_rate.set
    \/ ~lo.set /\ hi.set /\ ~x.growth_rate.set

\* The lambda growth_filter where it returns a value (analysis.py 95-98).
growth_filter(x, lo, hi) ==
    /\ ~lo.set \/ (x.growth_rate.set /\ RateLe(lo, x.growth_rate))
    /\ ~hi.set \/ (x.growth_rate.set /\ RateLe(x.growth_rate, hi))

NoFiltered == [error |-> "not_run", list |-> <<>>]

\* list(filter(growth_filter, data)), analysis.py 100
filter_by_growth_rate(d, lo, hi) ==
    IF \E i \in 1 .. Len(d) : growth_filter_raises(d[i], lo, hi)
    THEN [error |-> "TypeError", list |-> <<>>]
    ELSE [error |-> "none",
          list |-> SelectSeq(d, LAMBDA x : growth_filter(x, lo, hi))]

\* A call filter_by_growth_rate(data, min_growth, max_growth).
Filter ==
    /\ filtered = NoFiltered
    /\ filtered' = filter_by_growth_rate(data, min_growth, max_growth)
    /\ UNCHANGED <<data, analysis, min_growth, max_growth, csv, annotated>>
    /\ UNCHANGED clientVars

\* The columns of pd.DataFrame(rows) (analysis.py 114-121): the keys of the
\* dicts, and none at all for an empty list of rows.
Columns(d) ==
    IF Len(d) = 0 THEN <<>>
    ELSE <<"country", "year", "population", "growth_rate">>

\* df.to_csv(filename, index=False), analysis.py 123: the line of column
\* names, then one line per row with the cells in column order.
export_to_csv(d) ==
    <<Columns(d)>> \o
    [i \in 1 .. Len(d) |->
        <<d[i].country, d[i].year, d[i].population, d[i].growth_rate>>]

\* A call export_to_csv(data, filename) on a file that does not exist yet.
Export ==
    /\ csv = <<>>
    /\ csv' = export_to_csv(data)
    /\ UNCHANGED <<data, analysis, min_growth, max_growth, filtered, annotated>>
    /\ UNCHANGED clientVars

NotAnnotated == [done |-> FALSE, list |-> <<>>]

\* The growth-rate loop of calculate_growth_rate run over a collected list
\* (api.py 136-143).
Annotate ==
    /\ ~annotated.done
    /\ annotated' = [done |-> TRUE, list |-> GrowthPass(data)]
    /\ UNCHANGED <<data, analysis, min_growth, max_growth, filtered, csv>>
    /\ UNCHANGED clientVars

\* No list function has been called yet.
NoCalls ==
    /\ analysis = NoAnalysis("not_run")
    /\ min_growth = Unset
    /\ max_growth = Unset
    /\ filtered = NoFiltered
    /\ csv = <<>>
    /\ annotated = NotAnnotated

\* --------------------------------------------------------- specifications
\* The client right after PopulationAPIClient(rate_limit, time_window)
\* (api.py 29-33), with the arguments of the coming range call.
InitClient(last_years, responses) ==
    /\ rate_limit \in 1 .. MaxRateLimit
    /\ time_window \in 1 .. MaxTimeWindow
    /\ semaphore = rate_limit
    /\ request_count = 0
    /\ elapsed = 0
    /\ start_year = FirstYear
    /\ end_year \in last_years
    /\ server = responses
    /\ tasks = {}
    /\ pc = <<>>
    /\ remaining = <<>>
    /\ result = <<>>
    /\ completed = <<>>
    /\ population_data = <<>>
    /\ range_pc = "idle"
    /\ admits = <<>>
    /\ uptime = 0
    /\ reset_at = 0
    /\ last_reply = NoReply
    /\ sent = <<>>

Init ==
    /\ InitClient(FirstYear .. (FirstYear + MaxYears - 1), Responses)
    /\ data = <<>>
    /\ NoCalls

NextClient ==
    \/ Call
    \/ \E y \in tasks : Enter(y)
    \/ \E y \in tasks : Wake(y)
    \/ \E y \in tasks : \E r \in server : Respond(y, r)
    \/ RangeNext
    \/ Return
    \/ Tick

Next == NextClient

\* A range fetch against a server that may answer anything.
Spec == Init /\ [][Next]_vars

\* Many calls against a server that always has data: the limiter at work.
InitLimiter ==
    /\ InitClient({FirstYear + MaxCalls - 1}, {Observation(PyInt(100))})
    /\ data = <<>>
    /\ NoCalls

SpecLimiter == InitLimiter /\ [][Next]_vars

\* The answers of a server that follows the World Bank format: a failure, or
\* a number (api.py 70-85).
LiveResponses == {ConnectionError, Observation(PyInt(0)), Observation(PyInt(100))}

InitLive ==
    /\ InitClient(FirstYear .. (FirstYear + MaxYears - 1), LiveResponses)
    /\ data = <<>>
    /\ NoCalls

\* The event loop runs every callback that is ready (a task at the
\* semaphore, a sleeper whose time is up, the consumer of as_completed), the
\* clock advances, and every request sent gets its response or its error.
Fairness ==
    /\ WF_vars(Call)
    /\ WF_vars(\E y \in tasks : Enter(y))
    /\ WF_vars(\E y \in tasks : Wake(y))
    /\ \A y \in YearRange(FirstYear, FirstYear + MaxYears - 1) :
           WF_vars(\E r \in server : Respond(y, r))
    /\ WF_vars(RangeNext)
    /\ WF_vars(Return)
    /\ WF_vars(Tick)

\* A range fetch under a fair event loop, clock and network.
SpecLive == InitLive /\ [][Next]_vars /\ Fairness

\* The records a caller can build: PopulationData(country, year, population)
\* with an optional growth rate.
InputRecords ==
    {[PopulationData(Country, y, p) EXCEPT !.growth_rate = g] :
        y \in {FirstYear, FirstYear + 1},
        p \in {PyInt(0), PyInt(-5), PyInt(99), PyInt(100), PyInt(110), PyNone},
        g \in {Unset, Rate(10, 1)}}
    \cup {PopulationData("CAN", FirstYear, PyInt(110))}

\* A client no call has been made on: the list functions do not use it.
IdleClient ==
    /\ rate_limit = 1
    /\ time_window = 1
    /\ semaphore = 1
    /\ request_count = 0
    /\ elapsed = 0
    /\ start_year = FirstYear
    /\ end_year = FirstYear
    /\ server = {}
    /\ tasks = {}
    /\ pc = <<>>
    /\ remaining = <<>>
    /\ result = <<>>
    /\ completed = <<>>
    /\ population_data = <<>>
    /\ range_pc = "idle"
    /\ admits = <<>>
    /\ uptime = 0
    /\ reset_at = 0
    /\ last_reply = NoReply
    /\ sent = <<>>

\* The lists of at most MaxLen elements of S.
Lists(S) == UNION {[1 .. n -> S] : n \in 0 .. MaxLen}

InitAnalysis ==
    /\ IdleClient
    /\ data \in Lists(InputRecords)
    /\ NoCalls

NextAnalysis == Analyze

\* analyze_population_trends applied to every list of bounded length.
SpecAnalysis == InitAnalysis /\ [][NextAnalysis]_vars

\* Records as calculate_growth_rate returns them: a positive population and
\* a growth rate that is unset or a number.
RatedRecords ==
    {[PopulationData(Country, y, PyInt(100)) EXCEPT !.growth_rate = g] :
        y \in {FirstYear, FirstYear + 1},
        g \in {Unset, Rate(-10, 1), Rate(5, 1), Rate(10, 1)}}

\* The optional bounds min_growth and max_growth (analysis.py 81-82).
GrowthBounds == {Unset, Rate(5, 1), Rate(10, 1)}

InitFilter ==
    /\ IdleClient
    /\ data \in Lists(RatedRecords)
    /\ analysis = NoAnalysis("not_run")
    /\ min_growth \in GrowthBounds
    /\ max_growth \in GrowthBounds
    /\ filtered = NoFiltered
    /\ csv = <<>>
    /\ annotated = NotAnnotated

NextFilter == Filter

\* filter_by_growth_rate applied to every bounded list and pair of bounds.
SpecFilter == InitFilter /\ [][NextFilter]_vars

InitExport ==
    /\ IdleClient
    /\ data \in Lists(RatedRecords)
    /\ NoCalls

NextExport == Export

\* export_to_csv applied to every bounded list.
SpecExport == InitExport /\ [][NextExport]_vars

\* Records as the range generator collects them, plus the zero population
\* the loop also tests for: no growth rate yet.
FetchedRecords ==
    {PopulationData(Country, y, PyInt(p)) :
        y \in {FirstYear, FirstYear + 1}, p \in {0, 99, 100, 110}}

InitGrowth ==
    /\ IdleClient
    /\ data \in Lists(FetchedRecords)
    /\ NoCalls

NextGrowth == Annotate

\* The growth-rate loop applied to every bounded list.
SpecGrowth == InitGrowth /\ [][NextGrowth]_vars

\* ------------------------------------------------------------ properties
\* Tasks that hold the semaphore: admitted to `async with` and not returned.
InFlight == {y \in tasks : pc[y] \in {"sleep", "get"}}

\* Admissions of the last time_window ticks.
RecentAdmits == {i \in 1 .. Len(admits) : admits[i] < time_window}

\* Admissions since the instant last_request_time was last set.
WindowAdmits == {i \in 1 .. Len(admits) : admits[i] <= elapsed}

Done(y) == y \in tasks /\ pc[y] = "done"

\* The finished fetch of year y produced a record with population > 0.
Valid(y) ==
    /\ Done(y)
    /\ ~result[y].raised
    /\ result[y].data.population.t = "int"
    /\ result[y].data.population.v > 0

YieldedYears == {population_data[i].year : i \in 1 .. Len(population_data)}

\* C1: the number of calls in flight (semaphore acquired, not yet returned)
\* never exceeds rate_limit.
C1_InFlightBounded ==
    /\ Cardinality(InFlight) <= rate_limit
    /\ semaphore = rate_limit - Cardinality(InFlight)

\* C1 witness: the gate is full and holds another call back.
C1_Witness ==
    /\ Cardinality(InFlight) = rate_limit
    /\ \E y \in tasks : pc[y] = "acquire"

\* C2 as stated: no more than rate_limit requests are admitted within any
\* rolling interval of time_window, also across a window reset.
C2_RollingQuota == Cardinality(RecentAdmits) <= rate_limit

\* C2 amended: no more than rate_limit requests are admitted between two
\* consecutive resets of the window.
C2_QuotaBetweenResets == Len(admits) - reset_at <= rate_limit

\* C2 witness: after a reset the quota is used up and a call waits for the
\* next window.
C2_Witness ==
    /\ reset_at > 0
    /\ Len(admits) - reset_at = rate_limit
    /\ \E y \in tasks : pc[y] = "sleep"

\* C3: within the window that starts when last_request_time is set, at most
\* rate_limit requests are admitted, whatever the interleaving.
C3_FixedWindowQuota ==
    elapsed < time_window => Cardinality(WindowAdmits) <= rate_limit

\* C4: with more calls than rate_limit issued at the start of the first
\* window, exactly rate_limit are admitted at once, and no further call is
\* admitted before time_window has passed since the window started.
C4_BurstAdmission ==
    /\ uptime < time_window => Len(admits) <= rate_limit
    /\ (uptime = 0 /\ range_pc # "idle" /\ ~LoopBusy
            /\ Cardinality(tasks) > rate_limit)
        => Len(admits) = rate_limit

\* C4 witness: call rate_limit + 1 has just been admitted, a full window
\* after the first rate_limit calls.
C4_Witness ==
    /\ Len(admits) = rate_limit + 1
    /\ admits[rate_limit + 1] = 0
    /\ \A i \in 1 .. rate_limit : admits[i] = time_window
    /\ uptime = time_window

\* C5: for every failure outcome of the request the call returns normally,
\* with a record of population 0 for the requested country and year.
C5_FailureGivesZeroRecord ==
    (last_reply.year \in tasks /\ last_reply.response \in FailureResponses)
        => /\ ~result[last_reply.year].raised
           /\ result[last_reply.year].data =
                  PopulationData(Country, last_reply.year, PyInt(0))

\* C5 witness: a request ended with an observation that has no value field.
C5_Witness ==
    /\ last_reply.year \in tasks
    /\ last_reply.response = NoValueField
    /\ pc[last_reply.year] = "done"

\* C6: every returned record has an integer population >= 0.
C6_PopulationNonNegative ==
    \A y \in tasks : Done(y) =>
        /\ result[y].data.population.t = "int"
        /\ result[y].data.population.v >= 0

\* C7: the range fetch starts one fetch per year of [start_year, end_year]
\* and yields exactly the records whose population is > 0, each year once.
C7_RangeYieldsValidYears ==
    /\ range_pc # "idle" => tasks = start_year .. end_year
    /\ \A i \in 1 .. Len(population_data) :
           /\ population_data[i].year \in start_year .. end_year
           /\ population_data[i].population.t = "int"
           /\ population_data[i].population.v > 0
           /\ \A j \in 1 .. Len(population_data) :
                  population_data[i].year = population_data[j].year => i = j
    /\ (range_pc \in {"returned", "raised"} /\ \A y \in tasks : Done(y))
        => YieldedYears = {y \in tasks : Valid(y)}

\* C8: a failed or invalid response for one year never makes the range fetch
\* raise and never keeps a valid record of another year from being yielded.
C8_FailuresAreLocal ==
    /\ range_pc # "raised"
    /\ range_pc = "returned" => \A y \in tasks : Valid(y) => y \in YieldedYears

\* The record of the list that chronologically precedes entry i.
Preceding(list, i) ==
    {j \in 1 .. Len(list) :
        /\ list[j].year < list[i].year
        /\ \A k \in 1 .. Len(list) :
               list[k].year < list[i].year => list[k].year <= list[j].year}

\* C9: the list calculate_growth_rate returns is in ascending year order and
\* every growth rate is taken against the chronologically preceding record.
C9_GrowthOverSortedYears ==
    range_pc = "returned" =>
        /\ \A i \in 1 .. Len(population_data) - 1 :
               population_data[i].year < population_data[i + 1].year
        /\ \A i \in 1 .. Len(population_data) :
               population_data[i].growth_rate.set =>
                   \E j \in Preceding(population_data, i) :
                       RateEq(population_data[i].growth_rate,
                              GrowthRate(population_data[i].population.v,
                                         population_data[j].population.v))

HasPositive(d) == \E i \in 1 .. Len(d) : d[i].population.v > 0

\* C10: on records with integer populations, analyze_population_trends fails
\* with the no-valid-data error exactly when no record has population > 0,
\* and returns an analysis otherwise.
C10_NoDataErrorExactly ==
    (analysis.error # "not_run" /\ Comparable(data)) =>
        /\ analysis.error = "ValueError" <=> ~HasPositive(data)
        /\ HasPositive(data) => analysis.error = "none"

\* C10 witness: a non-empty list without any positive population is refused.
C10_Witness ==
    /\ Len(data) > 0
    /\ Comparable(data)
    /\ ~HasPositive(data)
    /\ analysis.error = "ValueError"

\* Indices of the records of d with population > 0.
ValidIndices(d) == {i \in 1 .. Len(d) : d[i].population.v > 0}

\* C11: with at least one valid record, in any input order, the analysis
\* has max_population and min_population the greatest and least population
\* of the records with population > 0, start_year and end_year their least
\* and greatest year, country that of the first such record, total_change =
\* max - min and percentage_change = total_change / min_population * 100.
C11_AnalysisFields ==
    (analysis.error = "none") =>
        LET V == ValidIndices(data) IN
        /\ \E i \in V : data[i].population.v = analysis.max_population
        /\ \A i \in V : data[i].population.v <= analysis.max_population
        /\ \E i \in V : data[i].population.v = analysis.min_population
        /\ \A i \in V : data[i].population.v >= analysis.min_population
        /\ \E i \in V : data[i].year = analysis.start_year
        /\ \A i \in V : data[i].year >= analysis.start_year
        /\ \E i \in V : data[i].year = analysis.end_year
        /\ \A i \in V : data[i].year <= analysis.end_year
        /\ \E i \in V : /\ \A j \in V : i <= j
                        /\ analysis.country = data[i].country
        /\ analysis.total_change =
               analysis.max_population - analysis.min_population
        /\ analysis.percentage_change.num * analysis.min_population =
               analysis.total_change * 100 * analysis.percentage_change.den

\* C11 witness: populations 100, 110, 99 give 110, 99, 11 and 1100/99.
C11_Witness ==
    /\ Len(data) = 3
    /\ data[1].population = PyInt(100)
    /\ data[2].population = PyInt(110)
    /\ data[3].population = PyInt(99)
    /\ analysis.error = "none"
    /\ analysis.max_population = 110
    /\ analysis.min_population = 99
    /\ analysis.total_change = 11
    /\ analysis.percentage_change.num * 99 =
           1100 * analysis.percentage_change.den

\* Growth rates that are set among the valid records of d.
SetRates(d) == {i \in ValidIndices(d) : d[i].growth_rate.set}

\* C12: average_growth_rate is the arithmetic mean of the growth rates set
\* among the valid records, and exactly 0 when none of them is set.
C12_AverageGrowthRate ==
    (analysis.error = "none") =>
        LET S == SetRates(data)
            a == analysis.average_growth_rate
        IN IF S = {}
           THEN ~a.nan /\ a.num = 0
           ELSE /\ ~a.nan
                \* every set rate of the inputs is 10: so is their mean
                /\ (\A i \in S : RateEq(data[i].growth_rate, Rate(10, 1)))
                       => a.num = 10 * a.den

\* The records of d a call with bounds lo and hi is to return.
WithinBounds(d, lo, hi) ==
    SelectSeq(d, LAMBDA x :
        /\ x.growth_rate.set
        /\ lo.set => RateLe(lo, x.growth_rate)
        /\ hi.set => RateLe(x.growth_rate, hi))

\* C13: filter_by_growth_rate with at least one bound returns, without
\* raising, exactly the records whose growth_rate is set and within every
\* given bound, in input order; with no bound it returns all records.
C13_FilterExcludesUnset ==
    (filtered # NoFiltered) =>
        /\ filtered.error = "none"
        /\ filtered.list =
               IF min_growth.set \/ max_growth.set
               THEN WithinBounds(data, min_growth, max_growth)
               ELSE data

\* C14: export_to_csv of N records writes N + 1 lines, the header country,
\* year, population, growth_rate first and then one row per record in input
\* order; for N = 0 the header only.
C14_CsvLines ==
    (csv # <<>>) =>
        /\ Len(csv) = Len(data) + 1
        /\ csv[1] = <<"country", "year", "population", "growth_rate">>
        /\ \A i \in 1 .. Len(data) :
               csv[i + 1] = <<data[i].country, data[i].year,
                              data[i].population, data[i].growth_rate>>

\* C18: the growth-rate loop keeps the length and order of the list and
\* every country, year and population; it never sets the rate of the first
\* record; for every later record it sets the rate to
\* (p[i] - p[i-1]) / p[i-1] * 100 when p[i-1] > 0 and leaves it unset when
\* p[i-1] = 0.
C18_GrowthPass ==
    annotated.done =>
        LET out == annotated.list IN
        /\ Len(out) = Len(data)
        /\ \A i \in 1 .. Len(data) :
            /\ out[i].country = data[i].country
            /\ out[i].year = data[i].year
            /\ out[i].population = data[i].population
            /\ (i = 1) => ~out[i].growth_rate.set
            /\ (i >= 2 /\ data[i - 1].population.v = 0) =>
                   ~out[i].growth_rate.set
            /\ (i >= 2 /\ data[i - 1].population.v > 0) =>
                   /\ out[i].growth_rate.set
                   /\ out[i].growth_rate.den > 0
                   /\ out[i].growth_rate.num * data[i - 1].population.v =
                          (data[i].population.v - data[i - 1].population.v)
                              * 100 * out[i].growth_rate.den

C18_Witness ==
    /\ annotated.done
    /\ Len(data) = 3
    /\ data[1].population.v = 100
    /\ data[2].population.v = 110
    /\ data[3].population.v = 99
    /\ ~annotated.list[1].growth_rate.set
    /\ RateEq(annotated.list[2].growth_rate, Rate(10, 1))
    /\ RateEq(annotated.list[3].growth_rate, Rate(-10, 1))

\* The GETs sent by the tasks in S.
RECURSIVE TotalSent(_)
TotalSent(S) ==
    IF S = {} THEN 0
    ELSE LET y == CHOOSE z \in S : TRUE IN sent[y] + TotalSent(S \ {y})

\* C16: every get_country_population call sends exactly one GET, only after
\* it has the semaphore and has passed the window check, and never a second
\* one after a failure; a finished range fetch over N years has sent N GETs
\* and the GETs sent never exceed the admissions.
C16_OneGetPerCall ==
    /\ \A y \in tasks :
        /\ sent[y] <= 1
        /\ (sent[y] = 1) <=> (pc[y] \in {"get", "done"})
    /\ TotalSent(tasks) <= Len(admits)
    /\ (tasks # {} /\ \A y \in tasks : pc[y] = "done") =>
           TotalSent(tasks) = end_year - start_year + 1

\* C16 witness: a range of two or more years is done, the last request
\* failed, and one GET per year was sent.
C16_Witness ==
    /\ Cardinality(tasks) >= 2
    /\ \A y \in tasks : pc[y] = "done"
    /\ last_reply.response \in FailureResponses
    /\ TotalSent(tasks) = Cardinality(tasks)

\* C17: no other task's admission check runs between a task's window
\* decision and that task's counter increment: while a task that found the
\* quota exhausted has not yet counted itself, no task passes from the
\* semaphore into _rate_limit.
C17_AdmissionCheckAtomic ==
    [][(\E y \in tasks : pc[y] = "sleep") =>
          \A z \in tasks : pc[z] = "acquire" => pc'[z] = "acquire"]_vars

\* C19: every record of the list calculate_growth_rate returns has a
\* population > 0, the first has no growth rate and every later one has.
C19_ReturnedList ==
    (range_pc = "returned") =>
        \A i \in 1 .. Len(population_data) :
            /\ population_data[i].population.t = "int"
            /\ population_data[i].population.v > 0
            /\ population_data[i].growth_rate.set <=> (i >= 2)

\* C19 witness: a list of two or more records is returned, the second with
\* its growth rate.
C19_Witness ==
    /\ range_pc = "returned"
    /\ Len(population_data) >= 2
    /\ population_data[2].growth_rate.set
    /\ ~population_data[1].growth_rate.set

\* C20: 0 <= request_count <= rate_limit in every state, and request_count
\* >= 1 right after every admission, also one made on waking from the quota
\* wait.
C20_CountWithinQuota ==
    /\ [](0 <= request_count /\ request_count <= rate_limit)
    /\ [][Len(admits') > Len(admits) => request_count' >= 1]_vars

\* C20 witness: after a reset that followed a full window the counter is at
\* the limit again, with a limit of two or more.
C20_Witness ==
    /\ rate_limit >= 2
    /\ reset_at >= rate_limit
    /\ Len(admits) > reset_at
    /\ request_count = rate_limit

\* The range fetch is over: every task has its result and has left the
\* semaphore, and calculate_growth_rate has returned its list.
Finished ==
    /\ tasks = YearRange(start_year, end_year)
    /\ \A y \in tasks : pc[y] = "done"
    /\ semaphore = rate_limit
    /\ completed = <<>>
    /\ range_pc = "returned"

====
